---- MODULE Spec2Model ----
(***************************************************************************)
(* A model of scheduling_automation: generate_schedule.py reads the        *)
(* workers' requests, checks them against the calendar, shuffles the       *)
(* workers and hands them to construct_and_optimize, which builds a CP-SAT *)
(* model (boolean assignment variables, hard constraints, two soft         *)
(* constraint blocks, an objective), solves it once and writes the         *)
(* schedule.                                                               *)
(*                                                                         *)
(* Indices ww (workers), dd (days) and pp (workplaces) are 0-based as in   *)
(* the source; TLA+ sequences are 1-based, so element i of a Python list   *)
(* is seq[i + 1].                                                          *)
(***************************************************************************)
EXTENDS Integers, Sequences, FiniteSets, TLC

VARIABLES
    pc,              \* the driver's position
    args,            \* the command line and the contents of the input file
    day_list,        \* generate_day_list's result
    worker_list,     \* parse_input's result, shuffled before the solve
    model,           \* the CpModel: its variables, constraints and objective
    solver,          \* the CpSolver: calls made, status and solved values
    schedule_array,  \* the output table
    output,          \* what was printed and written to schedule.csv
    error            \* the exception that ended the run, if any

vars == <<pc, args, day_list, worker_list, model, solver, schedule_array, output, error>>

(***************************************************************************)
(* Bounds of the model.                                                    *)
(***************************************************************************)
\* Days of the range that follow the first Sunday in the short rosters.
MaxExtraDays == 1
\* random.shuffle is explored up to this many rotations of the worker list.
MaxShuffle == 1

(***************************************************************************)
(* Generic helpers.                                                        *)
(***************************************************************************)
\* range(n) as a sequence: <<0, ..., n-1>>.
Range(n) == [i \in 1..n |-> i - 1]

RECURSIVE FlattenFrom(_, _)
FlattenFrom(ss, i) == IF i > Len(ss) THEN <<>> ELSE ss[i] \o FlattenFrom(ss, i + 1)
\* The concatenation of a sequence of sequences (the body of nested loops).
Flatten(ss) == FlattenFrom(ss \o <<>>, 1)

RECURSIVE SumFrom(_, _)
SumFrom(s, i) == IF i > Len(s) THEN 0 ELSE s[i] + SumFrom(s, i + 1)
\* sum(s) of a sequence of integers.
Sum(s) == SumFrom(s, 1)

RECURSIVE MaxFrom(_, _)
MaxFrom(s, i) ==
    IF i = Len(s) THEN s[i]
    ELSE LET m == MaxFrom(s, i + 1) IN IF s[i] >= m THEN s[i] ELSE m
\* max(s) of a non-empty sequence of integers.
MaxOf(s) == MaxFrom(s, 1)

RECURSIVE MinFrom(_, _)
MinFrom(s, i) ==
    IF i = Len(s) THEN s[i]
    ELSE LET m == MinFrom(s, i + 1) IN IF s[i] <= m THEN s[i] ELSE m
\* min(s) of a non-empty sequence of integers.
MinOf(s) == MinFrom(s, 1)

\* x in s, for a Python list s.
InList(x, s) == \E i \in 1..Len(s) : s[i] = x

(***************************************************************************)
(* worker.py: the workplace catalog and the Worker record.                 *)
(***************************************************************************)
ALL_WORKPLACES == <<"NZV", "POPS", "PORODNA", "TX">>

\* list.index: the 0-based position of x in seq.
IndexOf(seq, x) == (CHOOSE i \in 1..Len(seq) : seq[i] = x) - 1

\* str.upper after str.strip, on the tokens the input files use.
UpperStrip(tok) ==
    CASE tok \in {"NZV", "nzv", " NZV"} -> "NZV"
      [] tok \in {"POPS", "POPs", " POPs"} -> "POPS"
      [] tok \in {"PORODNA", "Porodna", " Porodna"} -> "PORODNA"
      [] tok \in {"TX", "Tx", " Tx"} -> "TX"
      [] tok \in {"Urgenca", " Urgenca"} -> "URGENCA"
      [] OTHER -> tok

\* The alphabetical rank of an upper-case token among those UpperStrip yields.
AlphaRank(tok) ==
    CASE tok = "NZV" -> 1
      [] tok = "POPS" -> 2
      [] tok = "PORODNA" -> 3
      [] tok = "TX" -> 4
      [] OTHER -> 5

RECURSIVE InsertSorted(_, _)
InsertSorted(x, s) ==
    IF s = <<>> THEN <<x>>
    ELSE IF AlphaRank(x) < AlphaRank(Head(s)) THEN <<x>> \o s
    ELSE <<Head(s)>> \o InsertSorted(x, Tail(s))

RECURSIVE SortedFrom(_, _)
SortedFrom(s, i) == IF i > Len(s) THEN <<>> ELSE InsertSorted(s[i], SortedFrom(s, i + 1))
\* sorted(s) of a list of workplace tokens.
Sorted(s) == SortedFrom(s, 1)

\* Worker.workplaces' setter: upper case, and every entry in the catalog.
WorkplacesRecognized(value) ==
    \A i \in 1..Len(value) : InList(UpperStrip(value[i]), ALL_WORKPLACES)

SetWorkplaces(value) == [i \in 1..Len(value) |-> UpperStrip(value[i])]

\* Worker.__repr__
WorkerRepr(worker) == <<worker.name, worker.surname>>

(***************************************************************************)
(* days.py: a Day is a date with its weekday and whether it is a public    *)
(* holiday in Slovenia.                                                    *)
(***************************************************************************)
isoweekday(day) == day.weekday

is_holiday(day) == day.holiday

is_weekend(day) == isoweekday(day) \in {6, 7}

is_workday(day) == ~(is_holiday(day) \/ is_weekend(day))

\* The contiguous range of days the run schedules: n days from a day whose
\* weekday is first_weekday, those with their 0-based index in holidays being
\* public holidays.
DayRange(first_weekday, n, holidays) ==
    [i \in 1..n |-> [weekday |-> ((first_weekday + i - 2) % 7) + 1,
                     holiday |-> (i - 1) \in holidays]]

\* The bound on next_month_days in the calendar runs.
MaxNextMonthDays == 2

\* calendar.isleap(year)
IsLeap(year) == year % 4 = 0 /\ (year % 100 # 0 \/ year % 400 = 0)

\* calendar.monthrange(year, month)[1], for a month in 1..12.
DaysInMonth(year, month) ==
    IF month = 2 THEN (IF IsLeap(year) THEN 29 ELSE 28)
    ELSE IF month \in {4, 6, 9, 11} THEN 30
    ELSE 31

\* date.__new__ accepts the arguments; it raises ValueError otherwise.
DateValid(year, month, day) ==
    /\ month \in 1..12
    /\ day \in 1..DaysInMonth(year, month)

\* Day(year, month, day)
Day(year, month, day) == [year |-> year, month |-> month, day |-> day]

\* The number of days of the months of year before month.
RECURSIVE DaysBeforeMonth(_, _)
DaysBeforeMonth(year, month) ==
    IF month <= 1 THEN 0
    ELSE DaysBeforeMonth(year, month - 1) + DaysInMonth(year, month - 1)

\* date.toordinal(): 1 for the first of January of the year 1.
toordinal(d) ==
    LET y == d.year - 1
    IN  y * 365 + (y \div 4) - (y \div 100) + (y \div 400)
        + DaysBeforeMonth(d.year, d.month) + d.day

\* next_month = (month + 1)%12
next_month(month) == (month + 1) % 12

\* next_year = year + 1 if month == 12 else year
next_year(month, year) == IF month = 12 THEN year + 1 ELSE year

\* generate_day_list(month, year, next_month_days): the list it returns, or
\* the ValueError of the first Day that date.__new__ does not accept.
generate_day_list(month, year, next_month_days) ==
    LET num_days_of_month == DaysInMonth(year, month)
        month_days == [ii \in 1..num_days_of_month |-> Day(year, month, ii)]
    IN  IF next_month_days > 0
        THEN IF \A ii \in 1..next_month_days :
                    DateValid(next_year(month, year), next_month(month), ii)
             THEN [raised |-> FALSE,
                   days |-> month_days
                            \o [ii \in 1..next_month_days |->
                                   Day(next_year(month, year), next_month(month), ii)]]
             ELSE [raised |-> TRUE, days |-> <<>>]
        ELSE [raised |-> FALSE, days |-> month_days]

(***************************************************************************)
(* parsing.py                                                              *)
(***************************************************************************)
\* The workplaces cell is modelled already split at its commas.
parse_workplaces(workplaces) ==
    Sorted([i \in 1..Len(workplaces) |-> UpperStrip(workplaces[i])])

parse_work_dates(work_dates) == [i \in 1..Len(work_dates) |-> work_dates[i] # "Ne"]

KnownWeekendPackage(weekend_package) == weekend_package \in {"Ne", "Da", "Vseeno mi je", ""}

parse_weekend_package(weekend_package) ==
    IF weekend_package = "Ne" THEN -1
    ELSE IF weekend_package = "Da" THEN 1
    ELSE 0

\* One row of the file parses without an exception.
RowParses(row) ==
    /\ WorkplacesRecognized(parse_workplaces(row.workplaces))
    /\ KnownWeekendPackage(row.weekend_package)

ParseRow(row) ==
    [name |-> row.name,
     surname |-> row.surname,
     workplaces |-> SetWorkplaces(parse_workplaces(row.workplaces)),
     work_dates |-> parse_work_dates(row.work_dates),
     weekend_package |-> parse_weekend_package(row.weekend_package),
     special_request |-> row.special_request]

parse_input(file) == [i \in 1..Len(file) |-> ParseRow(file[i])]

(***************************************************************************)
(* The CP-SAT model as construct_and_optimize builds it.  A variable is    *)
(* [name, lo, hi]; a constraint is one record                              *)
(*   linear    : sum of coef * var over terms  rel  rhs   (rel "==", "<=") *)
(*   bool_and  : the enforce literal implies every literal of terms        *)
(*   bool_or   : the enforce literal implies some literal of terms         *)
(*   max_eq    : target = max of the variables of terms                    *)
(*   min_eq    : target = min of the variables of terms                    *)
(* A term is <<coef, name>>; as a literal, coef 1 is the variable and      *)
(* coef -1 its negation (.Not()).                                          *)
(***************************************************************************)
NewBoolVar(name) == [name |-> name, lo |-> 0, hi |-> 1]

NewIntVar(lo, hi, name) == [name |-> name, lo |-> lo, hi |-> hi]

Constraint(type, terms, rel, rhs, enforce, target) ==
    [type |-> type, terms |-> terms, rel |-> rel, rhs |-> rhs,
     enforce |-> enforce, target |-> target]

\* model.Add(sum(terms) == rhs)
AddEq(terms, rhs) == Constraint("linear", terms, "==", rhs, <<>>, <<>>)

\* model.Add(sum(terms) <= rhs)
AddLe(terms, rhs) == Constraint("linear", terms, "<=", rhs, <<>>, <<>>)

\* model.add_exactly_one(literals)
add_exactly_one(terms) == Constraint("linear", terms, "==", 1, <<>>, <<>>)

\* model.AddBoolAnd(literals).OnlyEnforceIf(enforce)
AddBoolAnd(terms, enforce) == Constraint("bool_and", terms, "", 0, enforce, <<>>)

\* model.AddBoolOr(literals).OnlyEnforceIf(enforce)
AddBoolOr(terms, enforce) == Constraint("bool_or", terms, "", 0, enforce, <<>>)

\* model.AddMaxEquality(target, exprs)
AddMaxEquality(target, names) ==
    Constraint("max_eq", [i \in 1..Len(names) |-> <<1, names[i]>>], "", 0, <<>>, target)

\* model.AddMinEquality(target, exprs)
AddMinEquality(target, names) ==
    Constraint("min_eq", [i \in 1..Len(names) |-> <<1, names[i]>>], "", 0, <<>>, target)

\* A linear expression times a constant.
Scale(k, terms) == [i \in 1..Len(terms) |-> <<k * terms[i][1], terms[i][2]>>]

\* model.Add(target == sum(terms))
AddDefinition(target, terms) == AddEq(<<<<1, target>>>> \o Scale(-1, terms), 0)

(***************************************************************************)
(* construct_and_optimize: the variables and the hard constraints.         *)
(***************************************************************************)
num_workers == Len(worker_list)

num_days == Len(day_list)

num_workplaces == Len(ALL_WORKPLACES)

nzv_index == IndexOf(ALL_WORKPLACES, "NZV")

porodna_index == IndexOf(ALL_WORKPLACES, "PORODNA")

pops_index == IndexOf(ALL_WORKPLACES, "POPS")

tx_index == IndexOf(ALL_WORKPLACES, "TX")

\* work[ww, dd, pp], the variable named work_{ww}_{dd}_{pp}.
work(ww, dd, pp) == <<"work", ww, dd, pp>>

WorkVariables ==
    Flatten([w \in 1..num_workers |->
        Flatten([d \in 1..num_days |->
            [p \in 1..num_workplaces |-> NewBoolVar(work(w - 1, d - 1, p - 1))]])])

\* work[ww, dd, pp] for ww in range(num_workers)
WorkersAt(dd, pp) == [w \in 1..num_workers |-> <<1, work(w - 1, dd, pp)>>]

\* work[ww, dd, pp] for pp in range(num_workplaces)
ShiftsOn(ww, dd) == [p \in 1..num_workplaces |-> <<1, work(ww, dd, p - 1)>>]

\* A faulty PopsDemand that consults the weekday alone and not the holidays.
PopsDemandByWeekday(day) == IF is_weekend(day) THEN 0 ELSE 1

\* POPS only on workdays: the number of workers POPS takes on a day.
PopsDemand(day) == IF is_workday(day) THEN 1 ELSE 0

\* Constraint: exactly one worker per site.
OneWorkerPerSite ==
    Flatten([d \in 1..num_days |->
        <<add_exactly_one(WorkersAt(d - 1, nzv_index)),
          add_exactly_one(WorkersAt(d - 1, porodna_index)),
          add_exactly_one(WorkersAt(d - 1, tx_index)),
          AddEq(WorkersAt(d - 1, pops_index), PopsDemand(day_list[d]))>>])

\* A faulty EligibilityDays that starts at the second day of the range.
EligibilityDaysAfterFirst == SelectSeq(Range(num_days), LAMBDA dd : dd >= 1)

\* The days on which a worker is kept out of the workplaces he does not work at.
EligibilityDays == Range(num_days)

\* Constraint: worker works only in certain workplaces.
OnlyOwnWorkplaces ==
    Flatten([w \in 1..num_workers |->
        Flatten([d \in 1..Len(EligibilityDays) |->
            Flatten([p \in 1..num_workplaces |->
                IF ~InList(ALL_WORKPLACES[p], worker_list[w].workplaces)
                THEN <<AddEq(<<<<1, work(w - 1, EligibilityDays[d], p - 1)>>>>, 0)>>
                ELSE <<>>])])])

\* A faulty DailyShiftLimit that never reads the worker's work dates.
DailyShiftLimitAnyDay(ww, dd, can_work) == AddLe(ShiftsOn(ww, dd), 1)

\* The constraint on a worker's shifts of one day, by whether he can work.
DailyShiftLimit(ww, dd, can_work) ==
    IF can_work THEN AddLe(ShiftsOn(ww, dd), 1) ELSE AddEq(ShiftsOn(ww, dd), 0)

\* Constraint: at most one shift per day, if the worker can work.
AtMostOneShift ==
    Flatten([w \in 1..num_workers |->
        [d \in 1..num_days |->
            DailyShiftLimit(w - 1, d - 1, worker_list[w].work_dates[d])]])

\* A faulty IntensiveShifts that leaves POPS out.
IntensiveShiftsWithoutPops(ww, dd) ==
    <<<<1, work(ww, dd, nzv_index)>>, <<1, work(ww, dd, porodna_index)>>>>

\* The shifts of day dd after which the next day is off.
IntensiveShifts(ww, dd) ==
    <<<<1, work(ww, dd, nzv_index)>>, <<1, work(ww, dd, porodna_index)>>,
      <<1, work(ww, dd, pops_index)>>>>

\* Constraint: after working NZV or PORODNA or POPS, next day off.
NextDayOff ==
    Flatten([w \in 1..num_workers |->
        [d \in 1..(num_days - 1) |->
            AddLe(IntensiveShifts(w - 1, d - 1) \o ShiftsOn(w - 1, d), 1)]])

HardConstraints == OneWorkerPerSite \o OnlyOwnWorkplaces \o AtMostOneShift \o NextDayOff

(***************************************************************************)
(* construct_and_optimize: the weekend package.                            *)
(***************************************************************************)
\* All Fridays where the ensuing Sunday is included in the month.
fridays ==
    SelectSeq(Range(num_days),
              LAMBDA ii : isoweekday(day_list[ii + 1]) = 5 /\ ii + 2 < Len(day_list))

\* The combinations of site assignments on Friday and Sunday.
site_pairs ==
    <<<<porodna_index, porodna_index>>, <<nzv_index, nzv_index>>,
      <<nzv_index, porodna_index>>, <<porodna_index, nzv_index>>>>

\* The variable named and_{ww}_{dd}_{site1}_{site2}.
and_var(ww, dd, site1, site2) == <<"and", ww, dd, site1, site2>>

\* The variable named assigned_weekend_package_{ww}.
assigned_weekend_package(ww) == <<"assigned_weekend_package", ww>>

\* The list and_vars of worker ww.
and_vars(ww) ==
    Flatten([f \in 1..Len(fridays) |->
        [s \in 1..Len(site_pairs) |->
            and_var(ww, fridays[f], site_pairs[s][1], site_pairs[s][2])]])

\* and_var = work[ww, dd, site1] AND work[ww, dd + 2, site2]
AndVarLink(ww, dd, site1, site2) ==
    <<AddBoolAnd(<<<<1, work(ww, dd, site1)>>, <<1, work(ww, dd + 2, site2)>>>>,
                 <<1, and_var(ww, dd, site1, site2)>>),
      AddBoolOr(<<<<-1, work(ww, dd, site1)>>, <<-1, work(ww, dd + 2, site2)>>>>,
                <<-1, and_var(ww, dd, site1, site2)>>)>>

\* A faulty AtMostOnePackage that bounds the packages of each Friday apart.
AtMostOnePackagePerFriday(ww) ==
    [f \in 1..Len(fridays) |->
        AddLe([s \in 1..Len(site_pairs) |->
                  <<1, and_var(ww, fridays[f], site_pairs[s][1], site_pairs[s][2])>>], 1)]

\* At most one such weekend package assignment per worker across all Fridays.
AtMostOnePackage(ww) ==
    LET vs == and_vars(ww)
    IN  <<AddLe([i \in 1..Len(vs) |-> <<1, vs[i]>>], 1)>>

\* A faulty PackageLink that leaves out the converse direction.
PackageLinkOneWay(ww) ==
    LET vs == and_vars(ww)
    IN  <<AddBoolOr([i \in 1..Len(vs) |-> <<1, vs[i]>>],
                    <<1, assigned_weekend_package(ww)>>)>>

\* Link assigned_weekend_package to the or of all and_vars.
PackageLink(ww) ==
    LET vs == and_vars(ww)
    IN  <<AddBoolOr([i \in 1..Len(vs) |-> <<1, vs[i]>>],
                    <<1, assigned_weekend_package(ww)>>),
          AddBoolAnd([i \in 1..Len(vs) |-> <<-1, vs[i]>>],
                     <<-1, assigned_weekend_package(ww)>>)>>

\* Faulty weekend_penalties that leave out the factor -1.
weekend_penalties_unsigned ==
    [w \in 1..num_workers |->
        <<worker_list[w].weekend_package, assigned_weekend_package(w - 1)>>]

\* weekend_penalties: assigned_weekend_package * worker.weekend_package * (-1)
weekend_penalties ==
    [w \in 1..num_workers |->
        <<worker_list[w].weekend_package * (-1), assigned_weekend_package(w - 1)>>]

total_weekend_penalty == <<"total_penalty">>

WeekendVariables ==
    Flatten([w \in 1..num_workers |->
        LET vs == and_vars(w - 1)
        IN  [i \in 1..Len(vs) |-> NewBoolVar(vs[i])]
            \o <<NewBoolVar(assigned_weekend_package(w - 1))>>])
    \o <<NewIntVar(-num_workers, num_workers, total_weekend_penalty)>>

WeekendConstraints ==
    Flatten([w \in 1..num_workers |->
        Flatten([f \in 1..Len(fridays) |->
            Flatten([s \in 1..Len(site_pairs) |->
                AndVarLink(w - 1, fridays[f], site_pairs[s][1], site_pairs[s][2])])])
        \o AtMostOnePackage(w - 1)
        \o PackageLink(w - 1)])
    \o <<AddDefinition(total_weekend_penalty, weekend_penalties)>>

(***************************************************************************)
(* construct_and_optimize: the balanced assignment across workplaces.      *)
(***************************************************************************)
\* The variable named total_work_site_{ww}_{pp}.
total_work_site(ww, pp) == <<"total_work_site", ww, pp>>

max_work_site(ww) == <<"max_work_site", ww>>

min_work_site(ww) == <<"min_work_site", ww>>

\* The variable named imbalance_{ww}.
imbalances(ww) == <<"imbalance", ww>>

total_imbalance == <<"total_imbalance">>

\* A faulty OwnWorkplaces that takes the whole catalog for every worker.
OwnWorkplacesWholeCatalog(ww) == Range(num_workplaces)

\* The workplaces (indices pp) the worker works at, in catalog order.
OwnWorkplaces(ww) ==
    SelectSeq(Range(num_workplaces),
              LAMBDA pp : InList(ALL_WORKPLACES[pp + 1], worker_list[ww + 1].workplaces))

\* The list works of worker ww.
works(ww) ==
    LET own == OwnWorkplaces(ww)
    IN  [i \in 1..Len(own) |-> total_work_site(ww, own[i])]

BalanceVariables ==
    Flatten([w \in 1..num_workers |->
        LET ws == works(w - 1)
        IN  [i \in 1..Len(ws) |-> NewIntVar(0, num_days, ws[i])]
        \o <<NewIntVar(0, num_days, max_work_site(w - 1)),
             NewIntVar(0, num_days, min_work_site(w - 1)),
             NewIntVar(0, num_days, imbalances(w - 1))>>])
    \o <<NewIntVar(0, num_workers * num_days, total_imbalance)>>

BalanceConstraints ==
    Flatten([w \in 1..num_workers |->
        LET own == OwnWorkplaces(w - 1)
        IN  [i \in 1..Len(own) |->
                AddDefinition(total_work_site(w - 1, own[i]),
                              [d \in 1..num_days |-> <<1, work(w - 1, d - 1, own[i])>>])]
        \o <<AddMaxEquality(max_work_site(w - 1), works(w - 1)),
             AddMinEquality(min_work_site(w - 1), works(w - 1)),
             AddDefinition(imbalances(w - 1),
                           <<<<1, max_work_site(w - 1)>>, <<-1, min_work_site(w - 1)>>>>)>>])
    \o <<AddDefinition(total_imbalance,
                       [w \in 1..num_workers |-> <<1, imbalances(w - 1)>>])>>

(***************************************************************************)
(* construct_and_optimize: the fairness of the workload and the objective. *)
(***************************************************************************)
workplace_weights == args.workplace_weights

\* The variable named total_work_{ww}.
total_work(ww) == <<"total_work", ww>>

max_work == <<"max_work">>

min_work == <<"min_work">>

\* One shift per day is the max.
max_possible_work == num_days * MaxOf(workplace_weights)

\* sum(workplace_weights[pp] * work[ww, dd, pp] for dd ... for pp ...)
WeightedShifts(ww) ==
    Flatten([d \in 1..num_days |->
        [p \in 1..num_workplaces |-> <<workplace_weights[p], work(ww, d - 1, p - 1)>>]])

FairnessVariables ==
    [w \in 1..num_workers |-> NewIntVar(0, max_possible_work, total_work(w - 1))]
    \o <<NewIntVar(0, max_possible_work, max_work),
         NewIntVar(0, max_possible_work, min_work)>>

FairnessConstraints ==
    [w \in 1..num_workers |-> AddDefinition(total_work(w - 1), WeightedShifts(w - 1))]
    \o <<AddMaxEquality(max_work, [w \in 1..num_workers |-> total_work(w - 1)]),
         AddMinEquality(min_work, [w \in 1..num_workers |-> total_work(w - 1)])>>

\* (max_work - min_work) + total_weekend_penalty * penalty_weekend_package
\*                       + total_imbalance * penalty_equal_distribution
Objective ==
    <<<<1, max_work>>, <<-1, min_work>>,
      <<args.penalty_weekend_package, total_weekend_penalty>>,
      <<args.penalty_equal_distribution, total_imbalance>>>>

(***************************************************************************)
(* The external solver, by its contract: CpSolver.Solve(model) returns     *)
(* OPTIMAL or FEASIBLE only with values that satisfy every constraint of   *)
(* the model (OPTIMAL only with a minimal objective), INFEASIBLE only when *)
(* no such values exist, MODEL_INVALID for a model with an empty domain,   *)
(* and UNKNOWN when it stops without an answer.  The values satisfying the *)
(* model are enumerated by a depth-first search over the variables that    *)
(* drops a partial assignment as soon as one constraint can no longer      *)
(* hold; the order of the search does not change the set it finds.         *)
(***************************************************************************)
OPTIMAL == "OPTIMAL"

FEASIBLE == "FEASIBLE"

INFEASIBLE == "INFEASIBLE"

MODEL_INVALID == "MODEL_INVALID"

UNKNOWN == "UNKNOWN"

\* The order in which the search decides the variables: the assignment
\* variables day by day and site by site, then the others as created.
BranchOrder ==
    Flatten([d \in 1..num_days |->
        Flatten([p \in 1..num_workplaces |->
            [w \in 1..num_workers |-> work(w - 1, d - 1, p - 1)]])])
    \o LET rest == SelectSeq(model.vars, LAMBDA v : v.name[1] # "work")
       IN [i \in 1..Len(rest) |-> rest[i].name]

\* The position of each variable in a sequence of names.
Positions(order) ==
    [nm \in {order[i] : i \in 1..Len(order)} |->
        CHOOSE i \in 1..Len(order) : order[i] = nm] @@ <<>>

\* A term with its variable replaced by the variable's position in the order.
TermAt(posOf, t) == <<t[1], posOf[t[2]]>>

\* A constraint over positions, with the last position of its scope (the
\* first position for a constraint over no variable) and whether it is checked
\* before its scope is decided (a sum of boolean variables).
ConstraintAt(posOf, doms, c) ==
    LET terms == [i \in 1..Len(c.terms) |-> TermAt(posOf, c.terms[i])] \o <<>>
        enforce == IF c.enforce = <<>> THEN <<>> ELSE TermAt(posOf, c.enforce)
        target == IF c.target = <<>> THEN 0 ELSE posOf[c.target]
        scope == {terms[i][2] : i \in 1..Len(terms)}
                 \cup (IF enforce = <<>> THEN {} ELSE {enforce[2]})
                 \cup (IF target = 0 THEN {} ELSE {target})
    IN  [type |-> c.type, terms |-> terms, rel |-> c.rel, rhs |-> c.rhs,
         enforce |-> enforce, target |-> target, scope |-> scope,
         last |-> IF scope = {} THEN 1 ELSE CHOOSE k \in scope : \A j \in scope : j <= k,
         early |-> c.type = "linear"
                   /\ \A i \in 1..Len(terms) : terms[i][1] = 1
                   /\ \A k \in scope : doms[k].lo = 0 /\ doms[k].hi = 1]

RECURSIVE LeastFrom(_, _, _, _, _)
\* The least value the decided prefix 1..k leaves to a linear expression.
LeastFrom(terms, doms, a, k, i) ==
    IF i > Len(terms) THEN 0
    ELSE LET coef == terms[i][1]
             pos == terms[i][2]
         IN  (IF pos <= k THEN coef * a[pos]
              ELSE IF coef >= 0 THEN coef * doms[pos].lo ELSE coef * doms[pos].hi)
             + LeastFrom(terms, doms, a, k, i + 1)

RECURSIVE MostFrom(_, _, _, _, _)
\* The greatest value the decided prefix 1..k leaves to a linear expression.
MostFrom(terms, doms, a, k, i) ==
    IF i > Len(terms) THEN 0
    ELSE LET coef == terms[i][1]
             pos == terms[i][2]
         IN  (IF pos <= k THEN coef * a[pos]
              ELSE IF coef >= 0 THEN coef * doms[pos].hi ELSE coef * doms[pos].lo)
             + MostFrom(terms, doms, a, k, i + 1)

\* A literal's value under the values a.
LitTrue(lit, a) == IF lit[1] = 1 THEN a[lit[2]] = 1 ELSE a[lit[2]] = 0

\* Of a sum of boolean variables: the terms decided to be 1 up to position k.
Ones(c, a, k) == Cardinality({i \in 1..Len(c.terms) : c.terms[i][2] <= k /\ a[c.terms[i][2]] = 1})

\* Of a sum of boolean variables: the terms not decided up to position k.
Open(c, k) == Cardinality({i \in 1..Len(c.terms) : c.terms[i][2] > k})

\* Whether the values a, decided up to position k, can still satisfy c; for a
\* constraint whose scope is decided this is whether they satisfy it.
Holds(c, doms, a, k) ==
    CASE c.type = "linear" /\ c.early ->
            /\ Ones(c, a, k) <= c.rhs
            /\ c.rel = "==" => Ones(c, a, k) + Open(c, k) >= c.rhs
      [] c.type = "linear" /\ ~c.early ->
            /\ LeastFrom(c.terms, doms, a, k, 1) <= c.rhs
            /\ c.rel = "==" => MostFrom(c.terms, doms, a, k, 1) >= c.rhs
      [] c.type = "bool_and" ->
            LitTrue(c.enforce, a) => \A i \in 1..Len(c.terms) : LitTrue(c.terms[i], a)
      [] c.type = "bool_or" ->
            LitTrue(c.enforce, a) => \E i \in 1..Len(c.terms) : LitTrue(c.terms[i], a)
      [] c.type = "max_eq" ->
            /\ \A i \in 1..Len(c.terms) : a[c.terms[i][2]] <= a[c.target]
            /\ \E i \in 1..Len(c.terms) : a[c.terms[i][2]] = a[c.target]
      [] c.type = "min_eq" ->
            /\ \A i \in 1..Len(c.terms) : a[c.terms[i][2]] >= a[c.target]
            /\ \E i \in 1..Len(c.terms) : a[c.terms[i][2]] = a[c.target]

\* The coefficient of the variable at position k in a linear expression.
RECURSIVE CoefFrom(_, _, _)
CoefFrom(terms, k, i) ==
    IF i > Len(terms) THEN 0
    ELSE (IF terms[i][2] = k THEN terms[i][1] ELSE 0) + CoefFrom(terms, k, i + 1)

\* The values of the variable at position k that a linear constraint c, whose
\* other variables are decided, leaves to it.
Leaves(c, doms, a, k) ==
    LET base == LeastFrom(c.terms, doms, [a EXCEPT ![k] = 0], k, 1)
        coef == CoefFrom(c.terms, k, 1)
    IN  {x \in doms[k].lo .. doms[k].hi :
            /\ base + coef * x <= c.rhs
            /\ c.rel = "==" => base + coef * x >= c.rhs}

\* The values to try at position k: those of its domain, or those the first
\* linear constraint that k completes leaves to it.
Candidates(doms, fix, a, k) ==
    IF fix[k] = <<>> THEN doms[k].lo .. doms[k].hi ELSE Leaves(fix[k][1], doms, a, k)

RECURSIVE SearchTo(_, _, _, _, _)
\* The assignments decided up to position end that extend the values a
\* decided up to k - 1.
SearchTo(doms, pre, a, k, end) ==
    IF k > end THEN {a}
    ELSE UNION { LET b == [a EXCEPT ![k] = x]
                 IN  IF \A i \in 1..Len(pre.watch[k]) : Holds(pre.watch[k][i], doms, b, k)
                     THEN SearchTo(doms, pre, b, k + 1, end)
                     ELSE {}
                 : x \in Candidates(doms, pre.fix, a, k) }

RECURSIVE Search(_, _, _, _)
\* The complete assignments that extend one of partial, a set of assignments
\* decided up to k - 1; the search advances sixteen variables at a time.
Search(doms, pre, partial, k) ==
    IF k > Len(doms) \/ partial = {} THEN partial
    ELSE LET end == IF k + 15 < Len(doms) THEN k + 15 ELSE Len(doms)
         IN  Search(doms, pre,
                    UNION {SearchTo(doms, pre, a, k, end) : a \in partial}, end + 1)

\* What the solver derives from the model before it searches.
Presolve ==
    LET order == BranchOrder
        posOf == Positions(order)
        byName == Positions([i \in 1..Len(model.vars) |-> model.vars[i].name])
        doms == [k \in 1..Len(order) |->
                    [lo |-> model.vars[byName[order[k]]].lo,
                     hi |-> model.vars[byName[order[k]]].hi]] \o <<>>
        cons == [i \in 1..Len(model.constraints) |->
                    ConstraintAt(posOf, doms, model.constraints[i])] \o <<>>
    IN  [order |-> order, posOf |-> posOf, doms |-> doms,
         watch |-> [k \in 1..Len(order) |->
                       SelectSeq(cons, LAMBDA c : c.last = k \/ (c.early /\ k \in c.scope))]
                   \o <<>>,
         fix |-> [k \in 1..Len(order) |->
                     SelectSeq(cons, LAMBDA c : c.last = k /\ c.type = "linear" /\ ~c.early)]
                 \o <<>>]

\* Every variable has a value to take.
ModelValid == \A i \in 1..Len(model.vars) : model.vars[i].lo <= model.vars[i].hi

\* The value of a linear expression over named variables.
RECURSIVE ValueFrom(_, _, _)
ValueFrom(terms, values, i) ==
    IF i > Len(terms) THEN 0
    ELSE terms[i][1] * values[terms[i][2]] + ValueFrom(terms, values, i + 1)

ObjectiveValue(values) == ValueFrom(model.objective, values, 1)

\* Every assignment of the model's variables that satisfies its constraints,
\* as a function from variable names to values.
Solutions ==
    LET pre == Presolve
        found == Search(pre.doms, pre,
                        {[k \in 1..Len(pre.order) |-> pre.doms[k].lo] \o <<>>}, 1)
    IN  { [nm \in DOMAIN pre.posOf |-> a[pre.posOf[nm]]] : a \in found }

(***************************************************************************)
(* The inputs of a run: the command line and the rows of the input file.   *)
(***************************************************************************)
\* The work dates columns of a row: "Ne" on the days (0-based) of unavailable.
WorkDates(n, unavailable) == [i \in 1..n |-> IF (i - 1) \in unavailable THEN "Ne" ELSE ""]

Row(surname, name, workplaces, work_dates, weekend_package) ==
    [surname |-> surname, name |-> name, workplaces |-> workplaces,
     work_dates |-> work_dates, weekend_package |-> weekend_package,
     special_request |-> ""]

Run(file, first_weekday, n, holidays, weights, penalty_weekend, penalty_equal) ==
    [file |-> file, first_weekday |-> first_weekday, num_days |-> n, holidays |-> holidays,
     workplace_weights |-> weights, penalty_weekend_package |-> penalty_weekend,
     penalty_equal_distribution |-> penalty_equal]

\* A ward of seven from a Friday on: two workers who want the weekend package
\* and are away on the days of away, two more for NZV and PORODNA, two for
\* POPS and TX, and one who is away until the Monday.
WardFile(n, third_package, away) ==
    <<Row("Novak", "Ana", <<"NZV", " Porodna">>, WorkDates(n, away), "Da"),
      Row("Kovac", "Bor", <<"Porodna">>, WorkDates(n, away), "Da"),
      Row("Zupan", "Cene", <<"nzv">>, WorkDates(n, {}), third_package),
      Row("Horvat", "Dora", <<"Porodna", " NZV">>, WorkDates(n, {}), "Vseeno mi je"),
      Row("Krajnc", "Eva", <<"POPs", " Tx">>, WorkDates(n, {}), ""),
      Row("Potocnik", "Filip", <<"Tx">>, WorkDates(n, {}), "Ne"),
      Row("Vidmar", "Gal", <<"Tx", " POPs">>, WorkDates(n, {0, 1, 2}), "")>>

\* The ward's runs: with and without the Friday a holiday; with the third
\* worker against the weekend package, and with the third worker without a
\* preference and the two who want the package away on the Friday.
WardRuns ==
    { Run(WardFile(3 + extra, case[1], case[2]), 5, 3 + extra, holidays,
          <<3, 2, 3, 1>>, 4, 1) :
        extra \in 0..MaxExtraDays, case \in {<<"Ne", {}>>, <<"", {0}>>},
        holidays \in {{}, {0}} }

\* A ward of eight over two weekends, each worker at one workplace only.
TwoWeekendFile(n) ==
    <<Row("Novak", "Ana", <<"NZV">>, WorkDates(n, {}), "Da"),
      Row("Kovac", "Bor", <<"NZV">>, WorkDates(n, {}), ""),
      Row("Zupan", "Cene", <<"NZV">>, WorkDates(n, (0..(n - 1)) \ {6}), "Ne"),
      Row("Horvat", "Dora", <<"PORODNA">>, WorkDates(n, {}), "Da"),
      Row("Krajnc", "Eva", <<"PORODNA">>, WorkDates(n, {}), "Ne"),
      Row("Potocnik", "Filip", <<"POPS">>, WorkDates(n, {}), ""),
      Row("Vidmar", "Gal", <<"POPS">>, WorkDates(n, {}), ""),
      Row("Golob", "Hana", <<"TX">>, WorkDates(n, {}), "")>>

TwoWeekendRuns == { Run(TwoWeekendFile(10), 5, 10, {}, <<3, 2, 3, 1>>, 1, 1) }

\* Four workers who work everywhere, a week from a Monday on, all weights 1
\* and both penalties 0.
FourWorkersFile(n) ==
    <<Row("Novak", "Ana", <<"NZV", " POPs", " Porodna", " Tx">>, WorkDates(n, {}), ""),
      Row("Kovac", "Bor", <<"NZV", " POPs", " Porodna", " Tx">>, WorkDates(n, {}), ""),
      Row("Zupan", "Cene", <<"NZV", " POPs", " Porodna", " Tx">>, WorkDates(n, {}), ""),
      Row("Horvat", "Dora", <<"NZV", " POPs", " Porodna", " Tx">>, WorkDates(n, {}), "")>>

FourWorkersRuns == { Run(FourWorkersFile(7), 1, 7, {}, <<1, 1, 1, 1>>, 0, 0) }

\* The ward with the work dates of one row a column short or a column long.
MismatchedFile(n, who, len) ==
    [i \in 1..Len(WardFile(n, "", {})) |->
        IF i = who THEN [WardFile(n, "", {})[i] EXCEPT !.work_dates = WorkDates(len, {})]
        ELSE WardFile(n, "", {})[i]]

MismatchedRuns ==
    { Run(MismatchedFile(3, who, len), 5, 3, {}, <<3, 2, 3, 1>>, 1, 1) :
        who \in {2, 7}, len \in {2, 4} }

\* The ward with a workplace the catalog does not hold, and with weights
\* that leave the workload variables no value.
OtherRuns ==
    { Run([WardFile(3, "", {}) EXCEPT ![3].workplaces = <<"nzv", " Urgenca">>],
          5, 3, {}, <<3, 2, 3, 1>>, 1, 1),
      Run(WardFile(3, "", {}), 5, 3, {}, <<-1, -1, -1, -1>>, 1, 1) }

\* The ward from a Saturday on: a range without a Friday whose Sunday is in it.
SaturdayRuns == { Run(WardFile(3, "Ne", {}), 6, 3, {}, <<3, 2, 3, 1>>, 4, 1) }

Inputs ==
    WardRuns \cup TwoWeekendRuns \cup FourWorkersRuns \cup MismatchedRuns \cup OtherRuns
    \cup SaturdayRuns

(***************************************************************************)
(* generate_schedule.py and construct_and_optimize, step by step.          *)
(***************************************************************************)
NoModel == [vars |-> <<>>, constraints |-> <<>>, objective |-> <<>>]

NoSolve == [calls |-> 0, status |-> "", values |-> <<>>]

NoOutput == [stats |-> <<>>, csv |-> <<>>, stdout |-> <<>>]

Init ==
    /\ pc = "generate_day_list"
    /\ args \in Inputs
    /\ day_list = <<>>
    /\ worker_list = <<>>
    /\ model = NoModel
    /\ solver = NoSolve
    /\ schedule_array = <<>>
    /\ output = NoOutput
    /\ error = <<>>

\* day_list = generate_day_list(...)
GenerateDayList ==
    /\ pc = "generate_day_list"
    /\ day_list' = DayRange(args.first_weekday, args.num_days, args.holidays)
    /\ pc' = "parse_input"
    /\ UNCHANGED <<args, worker_list, model, solver, schedule_array, output, error>>

\* worker_list = parse_input(...): an unrecognized workplace or weekend
\* package raises.
ParseInput ==
    /\ pc = "parse_input"
    /\ IF \A i \in 1..Len(args.file) : RowParses(args.file[i])
       THEN /\ worker_list' = parse_input(args.file)
            /\ pc' = "check_work_dates"
            /\ error' = error
       ELSE /\ worker_list' = worker_list
            /\ pc' = "raised"
            /\ error' = [exception |-> "Unrecognized workplace or weekend package", shows |-> {}]
    /\ UNCHANGED <<args, day_list, model, solver, schedule_array, output>>

\* What the exception of the check shows: the number of days, and the text of
\* a generator object where the lengths were meant.
WorkDatesMessage ==
    [exception |-> "The number of work dates does not match the calendar!",
     shows |-> {<<"days", Len(day_list)>>, <<"generator object", "<genexpr>">>}]

\* Check that the number of days matches the schedule requests.
CheckWorkDates ==
    /\ pc = "check_work_dates"
    /\ output' = [output EXCEPT !.stdout = <<"Generating the schedule for:", day_list>>]
    /\ IF \E i \in 1..Len(worker_list) : Len(worker_list[i].work_dates) # Len(day_list)
       THEN /\ pc' = "raised"
            /\ error' = WorkDatesMessage
       ELSE /\ pc' = "shuffle"
            /\ error' = error
    /\ UNCHANGED <<args, day_list, worker_list, model, solver, schedule_array>>

\* The list s rotated left by r.
Rotate(s, r) == [i \in 1..Len(s) |-> s[((i - 1 + r) % Len(s)) + 1]]

\* random.shuffle(worker_list)
Shuffle ==
    /\ pc = "shuffle"
    /\ \E r \in 0..MaxShuffle : worker_list' = Rotate(worker_list, r)
    /\ pc' = "create_variables"
    /\ UNCHANGED <<args, day_list, model, solver, schedule_array, output, error>>

CreateVariables ==
    /\ pc = "create_variables"
    /\ model' = [vars |-> WorkVariables, constraints |-> <<>>, objective |-> <<>>]
    /\ pc' = "hard_constraints"
    /\ UNCHANGED <<args, day_list, worker_list, solver, schedule_array, output, error>>

AddHardConstraints ==
    /\ pc = "hard_constraints"
    /\ model' = [model EXCEPT !.constraints = @ \o HardConstraints]
    /\ pc' = "weekend_package"
    /\ UNCHANGED <<args, day_list, worker_list, solver, schedule_array, output, error>>

AddWeekendPackage ==
    /\ pc = "weekend_package"
    /\ model' = [model EXCEPT !.vars = @ \o WeekendVariables,
                              !.constraints = @ \o WeekendConstraints]
    /\ pc' = "balance"
    /\ UNCHANGED <<args, day_list, worker_list, solver, schedule_array, output, error>>

AddBalance ==
    /\ pc = "balance"
    /\ model' = [model EXCEPT !.vars = @ \o BalanceVariables,
                              !.constraints = @ \o BalanceConstraints]
    /\ pc' = "objective"
    /\ UNCHANGED <<args, day_list, worker_list, solver, schedule_array, output, error>>

AddObjective ==
    /\ pc = "objective"
    /\ model' = [model EXCEPT !.vars = @ \o FairnessVariables,
                              !.constraints = @ \o FairnessConstraints,
                              !.objective = Objective]
    /\ pc' = "solve"
    /\ UNCHANGED <<args, day_list, worker_list, solver, schedule_array, output, error>>

\* A faulty solver that, finding no solution, reports every variable at its
\* lower bound as a feasible one.
SolveOutcomesNeverInfeasible(sols) ==
    IF ~ModelValid THEN {<<MODEL_INVALID, <<>>>>}
    ELSE IF sols = {}
         THEN {<<FEASIBLE, [nm \in {model.vars[i].name : i \in 1..Len(model.vars)} |->
                               (CHOOSE i \in 1..Len(model.vars) : model.vars[i].name = nm) * 0]>>}
         ELSE {<<FEASIBLE, s>> : s \in sols}

\* What Solve may return for a model with the solutions sols.
SolveOutcomes(sols) ==
    IF ~ModelValid THEN {<<MODEL_INVALID, <<>>>>}
    ELSE {<<UNKNOWN, <<>>>>}
         \cup (IF sols = {} THEN {<<INFEASIBLE, <<>>>>} ELSE {})
         \cup {<<FEASIBLE, s>> : s \in sols}
         \cup LET least == CHOOSE x \in {ObjectiveValue(s) : s \in sols} :
                               \A t \in sols : x <= ObjectiveValue(t)
              IN  {<<OPTIMAL, s>> : s \in {t \in sols : ObjectiveValue(t) = least}}

\* status = solver.Solve(model)
Solve ==
    /\ pc = "solve"
    /\ LET sols == IF ModelValid THEN Solutions ELSE {}
       IN  \E outcome \in SolveOutcomes(sols) :
               solver' = [calls |-> solver.calls + 1, status |-> outcome[1],
                          values |-> outcome[2]]
    /\ pc' = "write_output"
    /\ UNCHANGED <<args, day_list, worker_list, model, schedule_array, output, error>>

\* solver.Value(var)
Value(name) == solver.values[name]

\* A faulty Accepted that takes OPTIMAL alone.
AcceptedOptimalOnly(status) == status = OPTIMAL

\* The statuses with which the schedule is written.
Accepted(status) == status \in {OPTIMAL, FEASIBLE}

\* A cell of the table holds a str or a Worker object.
Text(str) == [text |-> str]
Object(worker) == [worker |-> worker]

\* Faulty Cells whose loop does not break after "NONE".
CellsWithoutBreak(dd, pp) ==
    IF ALL_WORKPLACES[pp + 1] = "POPS" /\ ~is_workday(day_list[dd + 1])
    THEN [ww \in 1..num_workers |-> Text("NONE")]
    ELSE LET on == SelectSeq(Range(num_workers), LAMBDA ww : Value(work(ww, dd, pp)) = 1)
         IN  [i \in 1..Len(on) |-> Object(worker_list[on[i] + 1])]

\* What the loop over the workers appends to the row of day dd for workplace
\* pp: "NONE" at once for POPS on a day that is no workday, else every worker
\* whose variable is 1.
Cells(dd, pp) ==
    IF ALL_WORKPLACES[pp + 1] = "POPS" /\ ~is_workday(day_list[dd + 1])
    THEN IF num_workers > 0 THEN <<Text("NONE")>> ELSE <<>>
    ELSE LET on == SelectSeq(Range(num_workers), LAMBDA ww : Value(work(ww, dd, pp)) = 1)
         IN  [i \in 1..Len(on) |-> Object(worker_list[on[i] + 1])]

\* The table: the workplaces as the header, then a row per day.
ScheduleArray ==
    <<[p \in 1..num_workplaces |-> Text(ALL_WORKPLACES[p])]>>
    \o [d \in 1..num_days |-> Flatten([p \in 1..num_workplaces |-> Cells(d - 1, p - 1)])]

\* Write the output, or raise on a status that is neither OPTIMAL nor FEASIBLE.
WriteOutput ==
    /\ pc = "write_output"
    /\ IF Accepted(solver.status)
       THEN /\ schedule_array' = ScheduleArray
            /\ pc' = "collect_stats"
            /\ error' = error
       ELSE /\ schedule_array' = schedule_array
            /\ pc' = "raised"
            /\ error' = [exception |-> "The optimization was not successful.",
                         shows |-> {<<"status", solver.status>>}]
    /\ UNCHANGED <<args, day_list, worker_list, model, solver, output>>

\* sum(solver.Value(work[ww, dd, pp]) for dd ... for pp ...)
number_of_shifts(ww) ==
    Sum(Flatten([d \in 1..num_days |->
            [p \in 1..num_workplaces |-> Value(work(ww, d - 1, p - 1))]]))

\* sum(solver.Value(work[ww, dd, pp]) for dd in range(num_days))
number_of_shifts_per_workplace(ww, pp) ==
    Sum([d \in 1..num_days |-> Value(work(ww, d - 1, pp))])

number_of_weighted_shifts(ww) ==
    Sum(Flatten([d \in 1..num_days |->
            [p \in 1..num_workplaces |-> workplace_weights[p] * Value(work(ww, d - 1, p - 1))]]))

\* max(d.items(), key = value) and min(...): the first worker with the value.
FirstWith(counts, value) ==
    worker_list[CHOOSE w \in 1..Len(counts) :
                    counts[w] = value /\ \A v \in 1..(w - 1) : counts[v] # value]

Stats ==
    LET shifts == [w \in 1..num_workers |-> number_of_shifts(w - 1)]
        weighted == [w \in 1..num_workers |-> number_of_weighted_shifts(w - 1)]
        awarded == SelectSeq(Range(num_workers),
                             LAMBDA ww : Value(assigned_weekend_package(ww)) = 1)
    IN  [max_shifts |-> <<WorkerRepr(FirstWith(shifts, MaxOf(shifts))), MaxOf(shifts)>>,
         min_shifts |-> <<WorkerRepr(FirstWith(shifts, MinOf(shifts))), MinOf(shifts)>>,
         max_weighted_shifts |->
             <<WorkerRepr(FirstWith(weighted, MaxOf(weighted))), MaxOf(weighted)>>,
         min_weighted_shifts |->
             <<WorkerRepr(FirstWith(weighted, MinOf(weighted))), MinOf(weighted)>>,
         shifts_per_workplace |->
             [w \in 1..num_workers |->
                 [p \in 1..num_workplaces |-> number_of_shifts_per_workplace(w - 1, p - 1)]],
         total_imbalance |-> Value(total_imbalance),
         imbalances |-> [w \in 1..num_workers |-> Value(imbalances(w - 1))],
         assigned_weekend_packages |->
             [i \in 1..Len(awarded) |-> WorkerRepr(worker_list[awarded[i] + 1])]]

\* Collect and print some stats.
CollectStats ==
    /\ pc = "collect_stats"
    /\ output' = [output EXCEPT !.stats = Stats]
    /\ pc' = "write_csv"
    /\ UNCHANGED <<args, day_list, worker_list, model, solver, schedule_array, error>>

\* str(cell), as csv.writer writes a cell.
CellText(cell) == IF "text" \in DOMAIN cell THEN cell.text ELSE WorkerRepr(cell.worker)

\* Write the output as a csv file.
WriteCsv ==
    /\ pc = "write_csv"
    /\ output' = [output EXCEPT !.csv =
                     [r \in 1..Len(schedule_array) |->
                         [c \in 1..Len(schedule_array[r]) |-> CellText(schedule_array[r][c])]]]
    /\ pc' = "print_done"
    /\ UNCHANGED <<args, day_list, worker_list, model, solver, schedule_array, error>>

\* print("DONE")
PrintDone ==
    /\ pc = "print_done"
    /\ output' = [output EXCEPT !.stdout = Append(@, "DONE")]
    /\ pc' = "done"
    /\ UNCHANGED <<args, day_list, worker_list, model, solver, schedule_array, error>>

Next ==
    \/ GenerateDayList
    \/ ParseInput
    \/ CheckWorkDates
    \/ Shuffle
    \/ CreateVariables
    \/ AddHardConstraints
    \/ AddWeekendPackage
    \/ AddBalance
    \/ AddObjective
    \/ Solve
    \/ WriteOutput
    \/ CollectStats
    \/ WriteCsv
    \/ PrintDone

Spec == Init /\ [][Next]_vars

(***************************************************************************)
(* generate_day_list on its own: a call for each month of three years, one *)
(* of them a leap year and one a century that is none, with and without    *)
(* days of the next month.                                                 *)
(***************************************************************************)
CalendarArgs ==
    [month : 1..12, year : {2023, 2024, 2100}, next_month_days : 0..MaxNextMonthDays]

CalendarInit ==
    /\ pc = "generate_day_list"
    /\ args \in CalendarArgs
    /\ day_list = <<>>
    /\ worker_list = <<>>
    /\ model = NoModel
    /\ solver = NoSolve
    /\ schedule_array = <<>>
    /\ output = NoOutput
    /\ error = <<>>

\* day_list = generate_day_list(month, year, next_month_days)
CallGenerateDayList ==
    /\ pc = "generate_day_list"
    /\ LET call == generate_day_list(args.month, args.year, args.next_month_days)
       IN  IF call.raised
           THEN /\ pc' = "raised"
                /\ day_list' = day_list
                /\ error' = [exception |-> "ValueError",
                             shows |-> {<<"month", next_month(args.month)>>}]
           ELSE /\ pc' = "returned"
                /\ day_list' = call.days
                /\ error' = error
    /\ UNCHANGED <<args, worker_list, model, solver, schedule_array, output>>

CalendarNext == CallGenerateDayList

CalendarSpec == CalendarInit /\ [][CalendarNext]_vars

(***************************************************************************)
(* The properties of the schedule the solver returns.                      *)
(***************************************************************************)
\* The solver has returned a schedule that construct_and_optimize accepts.
AcceptedSchedule == solver.status \in {"OPTIMAL", "FEASIBLE"}

Days == 0..(num_days - 1)

Workers == 0..(num_workers - 1)

\* The workers the accepted schedule assigns to the workplace named site on day dd.
AssignedTo(dd, site) ==
    {ww \in Workers : Value(work(ww, dd, IndexOf(ALL_WORKPLACES, site))) = 1}

\* The workplaces the accepted schedule assigns worker ww on day dd.
AssignedOn(ww, dd) ==
    {site \in {"NZV", "POPS", "PORODNA", "TX"} :
        Value(work(ww, dd, IndexOf(ALL_WORKPLACES, site))) = 1}

\* The cells of the output table below the header, as <<row, column>>.
TableCells ==
    {rc \in (2..Len(schedule_array)) \X (1..num_workplaces) :
        rc[2] <= Len(schedule_array[rc[1]])}

\* The table cell holds the worker with index ww.
HoldsWorker(rc, ww) ==
    LET cell == schedule_array[rc[1]][rc[2]]
    IN  "worker" \in DOMAIN cell /\ cell.worker = worker_list[ww + 1]

\* C1: in every accepted schedule every day has exactly one worker at each of
\* NZV, PORODNA and TX, and POPS has exactly one worker on a workday and no
\* worker on a weekend day or a holiday.
C1_OneWorkerPerSite ==
    AcceptedSchedule =>
        \A dd \in Days :
            /\ \A site \in {"NZV", "PORODNA", "TX"} : Cardinality(AssignedTo(dd, site)) = 1
            /\ Cardinality(AssignedTo(dd, "POPS")) =
                   IF day_list[dd + 1].holiday \/ day_list[dd + 1].weekday \in {6, 7}
                   THEN 0 ELSE 1

\* A finished run whose schedule has a holiday on a weekday without POPS and a
\* workday with POPS.
C1_Witness ==
    /\ pc = "done"
    /\ AcceptedSchedule
    /\ \E dd \in Days : /\ day_list[dd + 1].holiday
                        /\ day_list[dd + 1].weekday \notin {6, 7}
                        /\ AssignedTo(dd, "POPS") = {}
    /\ \E dd \in Days : /\ ~day_list[dd + 1].holiday
                        /\ day_list[dd + 1].weekday \notin {6, 7}
                        /\ Cardinality(AssignedTo(dd, "POPS")) = 1

\* The worker cannot work on any day of the range.
NeverAvailable(ww) == \A dd \in Days : ~worker_list[ww + 1].work_dates[dd + 1]

\* C2: in every accepted schedule a worker has at most one workplace a day and
\* none on a day he cannot work; a worker who cannot work on any day has no
\* assignment and is in no cell of the output table.
C2_AtMostOneShift ==
    AcceptedSchedule =>
        /\ \A ww \in Workers, dd \in Days :
               /\ Cardinality(AssignedOn(ww, dd)) <= 1
               /\ ~worker_list[ww + 1].work_dates[dd + 1] => AssignedOn(ww, dd) = {}
        /\ \A ww \in Workers :
               NeverAvailable(ww) => \A rc \in TableCells : ~HoldsWorker(rc, ww)

\* A finished run with a worker who can never work and a table that holds
\* other workers.
C2_Witness ==
    /\ pc = "done"
    /\ AcceptedSchedule
    /\ \E ww \in Workers : NeverAvailable(ww)
    /\ \E rc \in TableCells, ww \in Workers : HoldsWorker(rc, ww)

QualifyingFridays == {dd \in Days : day_list[dd + 1].weekday = 5 /\ dd + 2 \in Days}

\* The weekend-package patterns the schedule realizes for worker ww.
Realized(ww) ==
    {fp \in QualifyingFridays \X {<<"PORODNA", "PORODNA">>, <<"NZV", "NZV">>,
                                  <<"NZV", "PORODNA">>, <<"PORODNA", "NZV">>} :
        fp[2][1] \in AssignedOn(ww, fp[1]) /\ fp[2][2] \in AssignedOn(ww, fp[1] + 2)}

\* C4: in every accepted schedule every worker realizes at most one weekend
\* package pattern, counted over all qualifying Fridays and the four site pairs.
C4_AtMostOnePackage ==
    AcceptedSchedule => \A ww \in Workers : Cardinality(Realized(ww)) <= 1

\* An accepted schedule over two qualifying Fridays in which one worker has
\* his package on the first and another worker his on the second.
C4_Witness ==
    /\ AcceptedSchedule
    /\ \E ww \in Workers, vv \in Workers :
           \E early \in Realized(ww), late \in Realized(vv) : early[1] < late[1]

\* C5: in every accepted schedule no worker is assigned to a workplace that is
\* not one of his workplaces, and no worker is in the column of such a workplace
\* in the output table.
C5_OnlyOwnWorkplaces ==
    AcceptedSchedule =>
        \A ww \in Workers :
            /\ \A dd \in Days :
                   \A site \in AssignedOn(ww, dd) : InList(site, worker_list[ww + 1].workplaces)
            /\ \A rc \in TableCells :
                   HoldsWorker(rc, ww)
                       => InList(ALL_WORKPLACES[rc[2]], worker_list[ww + 1].workplaces)

\* A finished run whose table has a worker in the POPS column and, in another
\* column, a worker who does not work at POPS.
C5_Witness ==
    /\ pc = "done"
    /\ AcceptedSchedule
    /\ \E rc \in TableCells, ww \in Workers :
           HoldsWorker(rc, ww) /\ ALL_WORKPLACES[rc[2]] = "POPS"
    /\ \E rc \in TableCells, ww \in Workers :
           HoldsWorker(rc, ww) /\ ~InList("POPS", worker_list[ww + 1].workplaces)

\* The number of shifts the schedule gives worker ww.
ShiftCount(ww) == Cardinality({ds \in Days \X {"NZV", "POPS", "PORODNA", "TX"} :
                                  ds[2] \in AssignedOn(ww, ds[1])})

\* Scenario A: four workers who work everywhere and can always work, seven
\* days with one weekend, all weights 1 and both penalties 0.
ScenarioA ==
    /\ num_workers = 4
    /\ \A w \in 1..num_workers :
           /\ worker_list[w].workplaces = <<"NZV", "POPS", "PORODNA", "TX">>
           /\ \A d \in 1..Len(worker_list[w].work_dates) : worker_list[w].work_dates[d]
    /\ num_days = 7
    /\ Cardinality({dd \in Days : day_list[dd + 1].weekday = 6}) = 1
    /\ Cardinality({dd \in Days : day_list[dd + 1].weekday = 7}) = 1
    /\ args.workplace_weights = <<1, 1, 1, 1>>
    /\ args.penalty_weekend_package = 0
    /\ args.penalty_equal_distribution = 0

\* C6 as stated: in Scenario A construct_and_optimize produces a schedule in
\* which no two workers' shift counts differ by more than 1.
C6_AsStated ==
    (ScenarioA /\ solver.calls >= 1 /\ solver.status # "UNKNOWN") =>
        /\ AcceptedSchedule
        /\ \A ww \in Workers, vv \in Workers : ShiftCount(ww) - ShiftCount(vv) <= 1

\* C6: in Scenario A the solver returns neither OPTIMAL nor FEASIBLE, and
\* construct_and_optimize raises with the status and produces no schedule.
C6_ScenarioA ==
    (ScenarioA /\ solver.calls >= 1) =>
        /\ ~AcceptedSchedule
        /\ pc \in {"write_output", "raised"}
        /\ schedule_array = <<>>
        /\ output.csv = <<>>

\* The run of Scenario A has raised on the status INFEASIBLE.
C6_Witness ==
    /\ ScenarioA
    /\ pc = "raised"
    /\ solver.status = "INFEASIBLE"
    /\ error.shows = {<<"status", "INFEASIBLE">>}

\* The workers whose weekend preference is +1 (wants).
Wanting == {ww \in Workers : worker_list[ww + 1].weekend_package = 1}

\* The workers whose package-assigned indicator is true.
Awarded == {ww \in Workers : Value(assigned_weekend_package(ww)) = 1}

\* C7 as stated, of the optimal schedules: with two wanting workers and one
\* qualifying Friday at most one of the two has the package-assigned indicator
\* true.
C7_AsStated ==
    (solver.status = "OPTIMAL" /\ Cardinality(Wanting) = 2 /\ Cardinality(QualifyingFridays) = 1)
        => Cardinality(Wanting \cap Awarded) <= 1

\* C7: with one qualifying Friday, in every accepted schedule the indicator of
\* a worker is true exactly when he realizes a package pattern on that Friday,
\* two workers with the indicator true differ in their Friday site and in
\* their Sunday site, and so at most two workers have it true.
C7_OnePackagePerSite ==
    (AcceptedSchedule /\ Cardinality(QualifyingFridays) = 1) =>
        /\ \A ww \in Workers : ww \in Awarded <=> Realized(ww) # {}
        /\ \A ww \in Awarded, vv \in Awarded :
               ww # vv => \A fp \in Realized(ww), fq \in Realized(vv) :
                              fp[2][1] # fq[2][1] /\ fp[2][2] # fq[2][2]
        /\ Cardinality(Awarded) <= 2

\* An optimal schedule over one qualifying Friday in which both of the two
\* wanting workers have the indicator true.
C7_Witness ==
    /\ solver.status = "OPTIMAL"
    /\ Cardinality(QualifyingFridays) = 1
    /\ Cardinality(Wanting) = 2
    /\ Wanting \subseteq Awarded

\* C8 as stated, of the optimal schedules: when neither of two wanting workers
\* is assigned a package, the weekend penalty is not zero.
C8_AsStated ==
    (solver.status = "OPTIMAL" /\ Cardinality(Wanting) = 2 /\ Wanting \cap Awarded = {})
        => Value(total_weekend_penalty) # 0

\* C8: in every accepted schedule the weekend penalty is the number of awarded
\* workers whose preference is -1 less the number whose preference is +1; when
\* no wanting worker is awarded it is the number of awarded workers whose
\* preference is -1, which is zero when there is none.
C8_WeekendPenalty ==
    AcceptedSchedule =>
        LET unwilling == {ww \in Awarded : worker_list[ww + 1].weekend_package = -1}
        IN  /\ Value(total_weekend_penalty) =
                   Cardinality(unwilling) - Cardinality(Wanting \cap Awarded)
            /\ Wanting \cap Awarded = {}
                   => Value(total_weekend_penalty) = Cardinality(unwilling)

\* An accepted schedule in which neither of two wanting workers is awarded,
\* a worker with preference -1 is, and the weekend penalty is 1.
C8_Witness ==
    /\ AcceptedSchedule
    /\ Cardinality(Wanting) = 2
    /\ Wanting \cap Awarded = {}
    /\ \E ww \in Awarded : worker_list[ww + 1].weekend_package = -1
    /\ Value(total_weekend_penalty) = 1

\* The workers whose work dates are not as many as the days.
Offending == {ww \in Workers : Len(worker_list[ww + 1].work_dates) # num_days}

\* C9 as stated: a run with a worker whose work dates are not as many as the
\* days is rejected before construct_and_optimize, with an error that
\* identifies the offending worker.
C9_AsStated ==
    (Offending # {} /\ pc \notin {"parse_input", "check_work_dates"}) =>
        /\ pc = "raised"
        /\ model = NoModel /\ solver = NoSolve /\ output.csv = <<>>
        /\ \E shown \in error.shows : shown[1] \in {"worker", "work dates"}

\* A run with an offending worker has raised at the check of the work dates,
\* before any model was built.
C9_Witness ==
    /\ Offending # {}
    /\ pc = "raised"
    /\ error = WorkDatesMessage
    /\ model = NoModel /\ solver = NoSolve /\ output.csv = <<>>

\* The model construct_and_optimize hands to the solver.
BuiltModel ==
    [vars |-> WorkVariables \o WeekendVariables \o BalanceVariables \o FairnessVariables,
     constraints |-> HardConstraints \o WeekendConstraints \o BalanceConstraints
                     \o FairnessConstraints,
     objective |-> Objective]

\* C10: the solver is invoked once; with OPTIMAL or FEASIBLE the schedule is
\* extracted and written; with any other status the driver halts with an error
\* that shows the status, the model as it was built, and no table, statistics
\* or file.
C10_SolveOnce ==
    /\ solver.calls <= 1
    /\ pc \in {"write_output", "collect_stats", "write_csv", "print_done", "done"}
           => solver.calls = 1
    /\ pc \in {"collect_stats", "write_csv", "print_done", "done"}
           => AcceptedSchedule /\ Len(schedule_array) = num_days + 1
    /\ pc = "done" => output.csv # <<>> /\ output.stats # <<>>
    /\ AcceptedSchedule => pc # "raised"
    /\ (solver.calls = 1 /\ ~AcceptedSchedule /\ pc # "write_output") =>
           /\ pc = "raised"
           /\ solver.status \in {"INFEASIBLE", "MODEL_INVALID", "UNKNOWN"}
           /\ error.shows = {<<"status", solver.status>>}
           /\ model = BuiltModel
           /\ schedule_array = <<>>
           /\ output.stats = <<>> /\ output.csv = <<>>

\* A run that has halted on a model the solver found invalid.
C10_Witness ==
    /\ pc = "raised"
    /\ solver.calls = 1
    /\ solver.status = "MODEL_INVALID"
    /\ error.shows = {<<"status", "MODEL_INVALID">>}

\* The calendar month after month, and its year.
FollowingMonth(month) == IF month = 12 THEN 1 ELSE month + 1

FollowingYear(month, year) == IF month = 12 THEN year + 1 ELSE year

\* Every day of the requested month in order, then the first next_month_days
\* days of the following calendar month.
RequestedDays ==
    [ii \in 1..DaysInMonth(args.year, args.month) |-> Day(args.year, args.month, ii)]
    \o [ii \in 1..args.next_month_days |->
           Day(FollowingYear(args.month, args.year), FollowingMonth(args.month), ii)]

\* Each consecutive pair of days of day_list is one calendar day apart.
Contiguous ==
    \A i \in 1..(Len(day_list) - 1) : toordinal(day_list[i + 1]) = toordinal(day_list[i]) + 1

\* C11 as stated: for every month, year and next_month_days, generate_day_list
\* returns every day of the month in order followed by exactly the first
\* next_month_days days of the following calendar month, each consecutive
\* pair of days one calendar day apart.
C11_AsStated ==
    pc # "generate_day_list" =>
        /\ pc = "returned"
        /\ day_list = RequestedDays
        /\ Contiguous

\* A call for a December with days of the next month has returned a list that
\* runs without a gap into January of the next year.
C11_Witness ==
    /\ pc = "returned"
    /\ args.month = 12
    /\ args.next_month_days >= 1
    /\ day_list = RequestedDays
    /\ day_list[Len(day_list)] = Day(args.year + 1, 1, args.next_month_days)
    /\ Contiguous

\* The number of days on which the schedule assigns worker ww to site.
CountAt(ww, site) == Cardinality({dd \in Days : site \in AssignedOn(ww, dd)})

\* The catalog workplaces worker ww is eligible for.
OwnSites(ww) ==
    {site \in {"NZV", "POPS", "PORODNA", "TX"} : InList(site, worker_list[ww + 1].workplaces)}

\* The largest and the smallest of a non-empty set of integers.
Largest(S) == CHOOSE x \in S : \A y \in S : y <= x

Smallest(S) == CHOOSE x \in S : \A y \in S : x <= y

\* The weighted number of shifts the assignment variables give worker ww.
WeightedCount(ww) ==
    Sum([p \in 1..num_workplaces |->
            args.workplace_weights[p] * CountAt(ww, ALL_WORKPLACES[p])])

\* The imbalance the assignment variables give worker ww: the largest less the
\* smallest count over the workplaces he is eligible for.
ImbalanceOf(ww) ==
    Largest({CountAt(ww, site) : site \in OwnSites(ww)})
    - Smallest({CountAt(ww, site) : site \in OwnSites(ww)})

\* The names of the variables other than the assignment variables.
AuxiliaryNames ==
    {and_var(ww, ps[1], IndexOf(ALL_WORKPLACES, ps[2][1]), IndexOf(ALL_WORKPLACES, ps[2][2])) :
        ww \in Workers,
        ps \in QualifyingFridays \X {<<"PORODNA", "PORODNA">>, <<"NZV", "NZV">>,
                                     <<"NZV", "PORODNA">>, <<"PORODNA", "NZV">>}}
    \cup {assigned_weekend_package(ww) : ww \in Workers}
    \cup UNION {{total_work_site(ww, IndexOf(ALL_WORKPLACES, site)) : site \in OwnSites(ww)} :
                   ww \in Workers}
    \cup UNION {{max_work_site(ww), min_work_site(ww), imbalances(ww), total_work(ww)} :
                   ww \in Workers}
    \cup {total_weekend_penalty, total_imbalance, max_work, min_work}

\* C12: in every assignment that satisfies the model's constraints every
\* auxiliary variable has the value the assignment variables give it: a pair
\* indicator is the conjunction of its Friday and Sunday assignments, the
\* package-assigned indicator the disjunction of the worker's pair indicators
\* (false without a qualifying Friday), a worker's total at an eligible
\* workplace the count of his assignments there, his imbalance the largest
\* less the smallest of those totals, his weighted total the weighted sum of
\* his assignments, the global maximum and minimum those of the weighted
\* totals; there is no further variable, and the objective value is the one
\* these give.  Stated of the values as Solve returns them, which no later
\* step changes.
C12_AuxiliaryDetermined ==
    (AcceptedSchedule /\ pc = "write_output") =>
        /\ DOMAIN solver.values =
               {work(ww, dd, pp) : ww \in Workers, dd \in Days, pp \in 0..(num_workplaces - 1)}
               \cup AuxiliaryNames
        /\ \A ww \in Workers :
               /\ \A dd \in QualifyingFridays :
                      \A ps \in {<<"PORODNA", "PORODNA">>, <<"NZV", "NZV">>,
                                 <<"NZV", "PORODNA">>, <<"PORODNA", "NZV">>} :
                          Value(and_var(ww, dd, IndexOf(ALL_WORKPLACES, ps[1]),
                                        IndexOf(ALL_WORKPLACES, ps[2])))
                              = IF ps[1] \in AssignedOn(ww, dd) /\ ps[2] \in AssignedOn(ww, dd + 2)
                                THEN 1 ELSE 0
               /\ Value(assigned_weekend_package(ww)) = IF Realized(ww) # {} THEN 1 ELSE 0
               /\ \A site \in OwnSites(ww) :
                      Value(total_work_site(ww, IndexOf(ALL_WORKPLACES, site))) = CountAt(ww, site)
               /\ Value(max_work_site(ww)) = Largest({CountAt(ww, site) : site \in OwnSites(ww)})
               /\ Value(min_work_site(ww)) = Smallest({CountAt(ww, site) : site \in OwnSites(ww)})
               /\ Value(imbalances(ww)) = ImbalanceOf(ww)
               /\ Value(total_work(ww)) = WeightedCount(ww)
        /\ Value(max_work) = Largest({WeightedCount(ww) : ww \in Workers})
        /\ Value(min_work) = Smallest({WeightedCount(ww) : ww \in Workers})
        /\ Value(total_imbalance) = Sum([w \in 1..num_workers |-> ImbalanceOf(w - 1)])
        /\ Value(total_weekend_penalty) =
               Sum([w \in 1..num_workers |->
                       IF Realized(w - 1) # {} THEN -worker_list[w].weekend_package ELSE 0])
        /\ ObjectiveValue(solver.values) =
               (Largest({WeightedCount(ww) : ww \in Workers})
                    - Smallest({WeightedCount(ww) : ww \in Workers}))
               + args.penalty_weekend_package
                     * Sum([w \in 1..num_workers |->
                               IF Realized(w - 1) # {} THEN -worker_list[w].weekend_package
                               ELSE 0])
               + args.penalty_equal_distribution
                     * Sum([w \in 1..num_workers |-> ImbalanceOf(w - 1)])

\* An accepted schedule in which a worker eligible for two workplaces has the
\* package with a shift at each, so that his smallest total is 1, and another
\* worker has an imbalance.
C12_Witness ==
    /\ AcceptedSchedule
    /\ pc = "write_output"
    /\ \E ww \in Workers :
           /\ Cardinality(OwnSites(ww)) = 2
           /\ Value(assigned_weekend_package(ww)) = 1
           /\ Value(min_work_site(ww)) >= 1
    /\ \E ww \in Workers : Value(imbalances(ww)) >= 1

\* The table has been extracted from an accepted schedule.
Extracted == pc \in {"collect_stats", "write_csv", "print_done", "done"}

\* The cell is the marker "NONE".
IsNone(cell) == "text" \in DOMAIN cell /\ cell.text = "NONE"

\* C13: the table extracted from an accepted schedule has the workplace catalog
\* in its order as first row and then one row per day in day order, each of
\* exactly one cell per catalog workplace in catalog order; the cell of a day
\* and a workplace is the one worker whose assignment variable for them is
\* true, except that the POPS cell of a day that is no workday is "NONE".
C13_Table ==
    Extracted =>
        /\ AcceptedSchedule
        /\ Len(schedule_array) = num_days + 1
        /\ Len(schedule_array[1]) = 4
        /\ \A p \in 1..4 :
               /\ "text" \in DOMAIN schedule_array[1][p]
               /\ schedule_array[1][p].text = <<"NZV", "POPS", "PORODNA", "TX">>[p]
        /\ \A dd \in Days :
               /\ Len(schedule_array[dd + 2]) = 4
               /\ \A p \in 1..4 :
                      LET site == <<"NZV", "POPS", "PORODNA", "TX">>[p]
                          day == day_list[dd + 1]
                          cell == schedule_array[dd + 2][p]
                      IN  IF site = "POPS" /\ (day.holiday \/ day.weekday \in {6, 7})
                          THEN IsNone(cell)
                          ELSE /\ Cardinality(AssignedTo(dd, site)) = 1
                               /\ \A ww \in AssignedTo(dd, site) : HoldsWorker(<<dd + 2, p>>, ww)

\* A finished run whose table has "NONE" in the POPS cell of one day and a
\* worker in the POPS cell of another.
C13_Witness ==
    /\ pc = "done"
    /\ \E dd \in Days : IsNone(schedule_array[dd + 2][2])
    /\ \E dd \in Days, ww \in Workers : HoldsWorker(<<dd + 2, 2>>, ww)

====
